---- MODULE Spec2Model ----
(***************************************************************************)
(* A model of src/main.py: the ConnectionManager (connection registry,     *)
(* room directory, message log, history filter, broadcast engine) and the  *)
(* websocket_endpoint connection tasks that drive it.                      *)
(*                                                                         *)
(* Scheduling.  The server is one asyncio event loop: a task runs without  *)
(* interruption from one `await` that suspends to the next.  The awaits of *)
(* the source are websocket.accept(), websocket.receive_text() and         *)
(* send_json().  Every action below is one such uninterrupted run of one   *)
(* task (or one whole HTTP handler, which never awaits).  A send_json is   *)
(* the write to the recipient's transport followed by a suspension: the    *)
(* write (or its failure) belongs to the run that issues it, and other     *)
(* tasks may run before the sender is resumed.  A send of the broadcast    *)
(* loop that raises is given the same suspension; a send that raises       *)
(* without suspending is two consecutive steps of the same task.           *)
(*                                                                         *)
(* Set iteration.  broadcast_to_room iterates over the live membership set *)
(* across awaits.  CPython's set iterator keeps a slot position and the    *)
(* size the set had when the iterator was created; each next() raises      *)
(* RuntimeError when the size differs, else yields the next occupied slot. *)
(* The slot order is modelled by a fixed total order on the elements       *)
(* (UserRank); every other part of the model is symmetric in the user      *)
(* names, so fixing the order loses no behaviour.                          *)
(***************************************************************************)
EXTENDS Integers, Sequences, FiniteSets, TLC

\* ------------------------------------------------------------------ bounds
\* Connections opened in a behaviour (every specification).
MaxConns == 2
\* Spec: rooms created and chat messages sent.
MaxRooms == 1
MaxMsgs == 1
\* TimeSpec: chat messages sent and ticks of the clock.
TimeMaxMsgs == 2
TimeMaxClock == 1
\* RoomSpec and ApiSpec: rooms created.
RoomMaxRooms == 2
ApiMaxRooms == 1
\* DeliverSpec: chat messages sent.
DeliverMaxMsgs == 2

\* The user identifiers clients may present, in set-iteration (slot) order.
UserOrder == <<"a", "b">>
Users == {UserOrder[i] : i \in 1..Len(UserOrder)}
\* uuid.uuid4() tokens, in the order they are generated.
UuidOrder == <<"r1", "r2", "r3", "r4">>
Uuid(i) == UuidOrder[i]
Public == "public"
\* A room identifier no create_room call ever returned.
NoSuchRoom == "nosuch"
Conns == 1..MaxConns
DefaultLimit == 100

UserRank(u) == CHOOSE i \in 1..Len(UserOrder) : UserOrder[i] = u
\* The position of a room in the insertion order of the room dicts.
RoomRank(r) == IF r = Public THEN 1
               ELSE 1 + (CHOOSE i \in 1..Len(UuidOrder) : UuidOrder[i] = r)

\* ----------------------------------------------------------- Python dicts
Put(f, k, v) == [x \in (DOMAIN f) \cup {k} |-> IF x = k THEN v ELSE f[x]]
Del(f, k) == [x \in (DOMAIN f) \ {k} |-> f[x]]
EmptyDict == [x \in {} |-> 0]
Range(s) == {s[i] : i \in 1..Len(s)}

\* datetime.isoformat() and datetime.fromisoformat(): the text form of a
\* naive local time and its parse.
Isoformat(t) == <<"iso", t>>
Fromisoformat(s) == s[2]

\* seq[-limit:] of Python: the last `limit` items for limit > 0, the whole
\* list for limit = 0 (-0 is 0), and seq[k:] for limit = -k < 0.
SliceFromNeg(seq, limit) ==
    LET n == Len(seq)
        start == IF limit > 0 THEN (IF n - limit > 0 THEN n - limit ELSE 0)
                 ELSE IF limit = 0 THEN 0
                 ELSE (IF 0 - limit > n THEN n ELSE 0 - limit)
    IN  SubSeq(seq, start + 1, n)

\* -------------------------------------------------- ConnectionManager
\* ConnectionManager.__init__
ManagerInit ==
    [ active_connections |-> EmptyDict,
      message_history    |-> [r \in {Public} |-> <<>>],
      user_rooms         |-> EmptyDict,
      room_members       |-> [r \in {Public} |-> {}],
      room_metadata      |-> EmptyDict,
      user_login_times   |-> EmptyDict ]

\* connect stamping the login time on every connection.
ManagerConnect_restamp(M, user_id, websocket, t) ==
    LET ur == IF user_id \in DOMAIN M.user_rooms THEN M.user_rooms[user_id] ELSE {}
    IN  [M EXCEPT
          !.active_connections = Put(@, user_id, websocket),
          !.user_login_times = Put(@, user_id, t),
          !.user_rooms = Put(@, user_id, ur \cup {Public}),
          !.room_members = [@ EXCEPT ![Public] = @ \cup {user_id}]]

\* ConnectionManager.connect, after `await websocket.accept()` has returned.
ManagerConnect(M, user_id, websocket, t) ==
    LET ur == IF user_id \in DOMAIN M.user_rooms THEN M.user_rooms[user_id] ELSE {}
    IN  [M EXCEPT
          !.active_connections = Put(@, user_id, websocket),
          !.user_login_times = IF user_id \in DOMAIN @ THEN @ ELSE Put(@, user_id, t),
          !.user_rooms = Put(@, user_id, ur \cup {Public}),
          !.room_members = [@ EXCEPT ![Public] = @ \cup {user_id}]]

\* ConnectionManager.disconnect
ManagerDisconnect(M, user_id) ==
    IF user_id \in DOMAIN M.active_connections
    THEN [M EXCEPT
           !.active_connections = Del(@, user_id),
           !.room_members =
               IF user_id \in DOMAIN M.user_rooms
               THEN [r \in DOMAIN @ |->
                       IF r \in M.user_rooms[user_id] THEN @[r] \ {user_id} ELSE @[r]]
               ELSE @,
           !.user_rooms = IF user_id \in DOMAIN @ THEN Del(@, user_id) ELSE @]
    ELSE M

\* ConnectionManager.create_room; room_id is the fresh uuid, members a list.
ManagerCreateRoom(M, room_id, room_type, members, t) ==
    [M EXCEPT
      !.room_members = Put(@, room_id, Range(members)),
      !.message_history = Put(@, room_id, <<>>),
      !.user_rooms =
          [u \in (DOMAIN @) \cup Range(members) |->
              IF u \in Range(members)
              THEN (IF u \in DOMAIN @ THEN @[u] ELSE {}) \cup {room_id}
              ELSE @[u]],
      !.room_metadata = Put(@, room_id,
          [type |-> room_type, created_at |-> Isoformat(t), members |-> members])]

\* The scan comparing the live membership set instead.
PrivateRoomsOf_live(M, user1, user2) ==
    {r \in DOMAIN M.room_metadata :
        /\ M.room_metadata[r].type = "private"
        /\ M.room_members[r] = {user1, user2}}

\* The scan of get_or_create_private_room: the private rooms whose stored
\* member list, as a set, is {user1, user2}.
PrivateRoomsOf(M, user1, user2) ==
    {r \in DOMAIN M.room_metadata :
        /\ M.room_metadata[r].type = "private"
        /\ Range(M.room_metadata[r].members) = {user1, user2}}

\* ConnectionManager.get_or_create_private_room: the room returned and the
\* manager after the call.  The dict is scanned in insertion order, which is
\* the order the uuids were generated in.
GetOrCreatePrivateRoom(M, user1, user2, fresh, t) ==
    LET found == PrivateRoomsOf(M, user1, user2)
    IN  IF found # {}
        THEN [room |-> CHOOSE r \in found : \A q \in found : RoomRank(r) <= RoomRank(q),
              m |-> M]
        ELSE [room |-> fresh,
              m |-> ManagerCreateRoom(M, fresh, "private", <<user1, user2>>, t)]

\* verify_room_access deciding by the member list stored at creation.
VerifyRoomAccess_stored(M, user_id, room_id) ==
    IF room_id \notin DOMAIN M.room_members THEN FALSE
    ELSE IF room_id \in DOMAIN M.room_metadata
         THEN user_id \in Range(M.room_metadata[room_id].members)
         ELSE user_id \in M.room_members[room_id]

\* ConnectionManager.verify_room_access
VerifyRoomAccess(M, user_id, room_id) ==
    IF room_id \notin DOMAIN M.room_members THEN FALSE
    ELSE user_id \in M.room_members[room_id]

\* ConnectionManager.get_user_login_time
GetUserLoginTime(M, user_id, t) ==
    IF user_id \in DOMAIN M.user_login_times THEN M.user_login_times[user_id] ELSE t

\* join_room recording the user in the room's set only.
JoinRoom_membersonly(M, user_id, room_id) ==
    IF room_id \notin DOMAIN M.room_members THEN [ret |-> FALSE, m |-> M]
    ELSE [ret |-> TRUE,
          m |-> [M EXCEPT !.room_members = [@ EXCEPT ![room_id] = @ \cup {user_id}]]]

\* ConnectionManager.join_room
JoinRoom(M, user_id, room_id) ==
    IF room_id \notin DOMAIN M.room_members THEN [ret |-> FALSE, m |-> M]
    ELSE [ret |-> TRUE,
          m |-> [M EXCEPT
                  !.room_members = [@ EXCEPT ![room_id] = @ \cup {user_id}],
                  !.user_rooms = Put(@, user_id,
                      (IF user_id \in DOMAIN @ THEN @[user_id] ELSE {}) \cup {room_id})]]

\* leave_room without its refusal of the public room.
LeaveRoom_any(M, user_id, room_id) ==
    [ret |-> TRUE,
     m |-> [M EXCEPT
             !.room_members = IF room_id \in DOMAIN @
                              THEN [@ EXCEPT ![room_id] = @ \ {user_id}] ELSE @,
             !.user_rooms = IF user_id \in DOMAIN @
                            THEN [@ EXCEPT ![user_id] = @ \ {room_id}] ELSE @]]

\* leave_room answering whether the user was a member.
LeaveRoom_wasmember(M, user_id, room_id) ==
    IF room_id = Public THEN [ret |-> FALSE, m |-> M]
    ELSE [ret |-> room_id \in DOMAIN M.room_members /\ user_id \in M.room_members[room_id],
          m |-> [M EXCEPT
                  !.room_members = IF room_id \in DOMAIN @
                                   THEN [@ EXCEPT ![room_id] = @ \ {user_id}] ELSE @,
                  !.user_rooms = IF user_id \in DOMAIN @
                                 THEN [@ EXCEPT ![user_id] = @ \ {room_id}] ELSE @]]

\* ConnectionManager.leave_room
LeaveRoom(M, user_id, room_id) ==
    IF room_id = Public THEN [ret |-> FALSE, m |-> M]
    ELSE [ret |-> TRUE,
          m |-> [M EXCEPT
                  !.room_members = IF room_id \in DOMAIN @
                                   THEN [@ EXCEPT ![room_id] = @ \ {user_id}] ELSE @,
                  !.user_rooms = IF user_id \in DOMAIN @
                                 THEN [@ EXCEPT ![user_id] = @ \ {room_id}] ELSE @]]

\* The stored copy broadcast_to_room appends to the log.
StoredMessage(message, room_id, t) ==
    [type |-> message.type, id |-> message.id, sender_id |-> message.sender_id,
     room_id |-> room_id, timestamp |-> message.timestamp, stored_at |-> Isoformat(t)]

\* The log append ignoring exclude_from_history.
AppendHistory_always(M, room_id, message, exclude_from_history, t) ==
    [M EXCEPT !.message_history =
        Put(@, room_id,
            Append(IF room_id \in DOMAIN @ THEN @[room_id] ELSE <<>>,
                   StoredMessage(message, room_id, t)))]

\* The log append putting the new entry in front.
AppendHistory_front(M, room_id, message, exclude_from_history, t) ==
    IF exclude_from_history THEN M
    ELSE [M EXCEPT !.message_history =
            Put(@, room_id,
                <<StoredMessage(message, room_id, t)>>
                    \o (IF room_id \in DOMAIN @ THEN @[room_id] ELSE <<>>))]

\* The first lines of broadcast_to_room: the log append.
AppendHistory(M, room_id, message, exclude_from_history, t) ==
    IF exclude_from_history THEN M
    ELSE [M EXCEPT !.message_history =
            Put(@, room_id,
                Append(IF room_id \in DOMAIN @ THEN @[room_id] ELSE <<>>,
                       StoredMessage(message, room_id, t)))]

\* get_room_history without its time filter.
FilterMessages_all(log, user_login_time) == log

\* The filter loop of get_room_history: the entries kept.
RECURSIVE FilterMessages(_, _)
FilterMessages(log, user_login_time) ==
    IF log = <<>> THEN <<>>
    ELSE LET msg == Head(log)
             rest == FilterMessages(Tail(log), user_login_time)
             \* msg.get("timestamp") or msg.get("stored_at"): every entry of
             \* the log carries a server-made timestamp
             msg_timestamp == Fromisoformat(msg.timestamp)
         IN  IF msg_timestamp >= user_login_time THEN <<msg>> \o rest ELSE rest

\* ConnectionManager.get_room_history
GetRoomHistory(M, room_id, user_id, limit, t) ==
    IF ~VerifyRoomAccess(M, user_id, room_id) THEN <<>>
    ELSE IF room_id \notin DOMAIN M.message_history THEN <<>>
    ELSE SliceFromNeg(
            FilterMessages(M.message_history[room_id], GetUserLoginTime(M, user_id, t)),
            limit)

\* ------------------------------------------------------- connection tasks
\* One websocket_endpoint task per connection.  pc is the await the task is
\* suspended in (or "idle" before the connection is opened, "done" after the
\* handler returned, "crashed" after an exception left the handler):
\*   greeted     in the last send_to_user of the greeting
\*   broadcast   in a send_json of broadcast_to_room; phase says which call
\*   recv        in websocket.receive_text()
\* room, message, n0, pos and disconnected are the locals of the running
\* broadcast_to_room: its arguments, its set iterator (the size of the set
\* when the loop began, the slot reached) and its `disconnected` list.
NoUser == "-"
TaskInit ==
    [ user |-> NoUser, pc |-> "idle", phase |-> "none",
      room |-> Public, message |-> 0, n0 |-> 0, pos |-> 0, disconnected |-> {} ]

\* What a run did that its caller or a client can observe.
Event(op, c, u, r, what, id) ==
    [op |-> op, conn |-> c, user |-> u, room |-> r, what |-> what, msg |-> id]
Emit(W, e) == [W EXCEPT !.ev = @ \cup {e}]

\* The world a run transforms: the manager, the tasks, what each connection
\* has been sent (chat messages only), the events of the run, the clock.
WDisconnect(W, user_id) == [W EXCEPT !.m = ManagerDisconnect(@, user_id)]

RECURSIVE DisconnectAll(_, _)
DisconnectAll(W, users) ==
    IF users = {} THEN W
    ELSE LET u == CHOOSE x \in users : \A y \in users : UserRank(x) <= UserRank(y)
         IN  DisconnectAll(WDisconnect(W, u), users \ {u})

\* ConnectionManager.send_to_user up to its await: the write of one frame to
\* the user's registered handle, which succeeds (ok) or raises.
SendToUser(W, c, user_id, what, room_id, ok) ==
    IF user_id \notin DOMAIN W.m.active_connections THEN W
    ELSE LET h == W.m.active_connections[user_id]
         IN  IF ok THEN Emit(W, Event("deliver", h, user_id, room_id, what, 0))
             ELSE WDisconnect(Emit(W, Event("sendfail", h, user_id, room_id, what, 0)),
                              user_id)

\* The chat message of a client frame, or an ephemeral notice.
ChatMessage(id, sender, t) ==
    [type |-> "message", id |-> id, sender_id |-> sender, timestamp |-> Isoformat(t)]
Notice(type, t) ==
    [type |-> type, id |-> 0, sender_id |-> NoUser, timestamp |-> Isoformat(t)]

\* The members of a broadcast's room the iterator has still to yield and
\* that have a registered handle: the next send goes to the first of them.
Recipients(M, room_id, pos) ==
    {u \in M.room_members[room_id] :
        UserRank(u) > pos /\ u \in DOMAIN M.active_connections}

RECURSIVE BroadcastLoop(_, _, _), BroadcastEnd(_, _, _), AfterBroadcast(_, _, _)
RECURSIVE BroadcastToRoom(_, _, _, _, _, _), Finally(_, _, _), Raise(_, _, _, _)

\* The loop returning after its first send.
BroadcastLoop_first(W, c, ok) ==
    LET t == W.conn[c]
        members == W.m.room_members[t.room]
    IN  IF Cardinality(members) # t.n0
        THEN Raise(W, c, "RuntimeError", ok)
        ELSE LET rcpt == Recipients(W.m, t.room, IF t.pos > 0 THEN Len(UserOrder) ELSE 0)
             IN  IF rcpt = {} THEN BroadcastEnd(W, c, ok)
                 ELSE LET u == CHOOSE x \in rcpt : \A y \in rcpt : UserRank(x) <= UserRank(y)
                          h == W.m.active_connections[u]
                          e == Event(IF ok THEN "deliver" ELSE "sendfail",
                                     h, u, t.room, t.phase, t.message)
                      IN  [Emit(W, e) EXCEPT
                             !.conn[c].pos = UserRank(u),
                             !.conn[c].disconnected = IF ok THEN @ ELSE @ \cup {u},
                             !.inbox[h] = IF ok /\ t.phase = "msg"
                                          THEN Append(@, t.message) ELSE @]

\* The loop with the failed recipient disconnected inside the except clause.
BroadcastLoop_eager(W, c, ok) ==
    LET t == W.conn[c]
        members == W.m.room_members[t.room]
    IN  IF Cardinality(members) # t.n0
        THEN Raise(W, c, "RuntimeError", ok)
        ELSE LET rcpt == Recipients(W.m, t.room, t.pos)
             IN  IF rcpt = {} THEN BroadcastEnd(W, c, ok)
                 ELSE LET u == CHOOSE x \in rcpt : \A y \in rcpt : UserRank(x) <= UserRank(y)
                          h == W.m.active_connections[u]
                          e == Event(IF ok THEN "deliver" ELSE "sendfail",
                                     h, u, t.room, t.phase, t.message)
                          W1 == [Emit(W, e) EXCEPT
                                   !.conn[c].pos = UserRank(u),
                                   !.conn[c].disconnected = IF ok THEN @ ELSE @ \cup {u},
                                   !.inbox[h] = IF ok /\ t.phase = "msg"
                                                THEN Append(@, t.message) ELSE @]
                      IN  IF ok THEN W1 ELSE WDisconnect(W1, u)

\* The `for user_id in self.room_members[room_id]` loop of broadcast_to_room
\* from a next() of its iterator up to the next send_json.
BroadcastLoop(W, c, ok) ==
    LET t == W.conn[c]
        members == W.m.room_members[t.room]
    IN  IF Cardinality(members) # t.n0
        THEN Raise(W, c, "RuntimeError", ok)
        ELSE LET rcpt == Recipients(W.m, t.room, t.pos)
             IN  IF rcpt = {} THEN BroadcastEnd(W, c, ok)
                 ELSE LET u == CHOOSE x \in rcpt : \A y \in rcpt : UserRank(x) <= UserRank(y)
                          h == W.m.active_connections[u]
                          e == Event(IF ok THEN "deliver" ELSE "sendfail",
                                     h, u, t.room, t.phase, t.message)
                      IN  [Emit(W, e) EXCEPT
                             !.conn[c].pos = UserRank(u),
                             !.conn[c].disconnected = IF ok THEN @ ELSE @ \cup {u},
                             !.inbox[h] = IF ok /\ t.phase = "msg"
                                          THEN Append(@, t.message) ELSE @]

\* The `for user_id in disconnected` loop and the return of broadcast_to_room.
BroadcastEnd(W, c, ok) ==
    AfterBroadcast(
        [DisconnectAll(W, W.conn[c].disconnected) EXCEPT
            !.conn[c].disconnected = {}, !.conn[c].n0 = 0, !.conn[c].pos = 0,
            !.conn[c].message = 0, !.conn[c].room = Public],
        c, ok)

\* broadcast_to_room from its call up to its first send_json.
BroadcastToRoom(W, c, room_id, phase, message, ok) ==
    LET W1 == [W EXCEPT
                 !.m = AppendHistory(@, room_id, message, phase # "msg", W.t),
                 !.conn[c].pc = "broadcast", !.conn[c].phase = phase]
    IN  IF room_id \notin DOMAIN W1.m.room_members THEN AfterBroadcast(W1, c, ok)
        ELSE BroadcastLoop(
                [W1 EXCEPT !.conn[c].room = room_id, !.conn[c].message = message.id,
                           !.conn[c].n0 = Cardinality(W1.m.room_members[room_id]),
                           !.conn[c].pos = 0, !.conn[c].disconnected = {}],
                c, ok)

\* websocket_endpoint after a broadcast_to_room call returned.
AfterBroadcast(W, c, ok) ==
    LET phase == W.conn[c].phase IN
    CASE phase = "roster_in" ->
            BroadcastToRoom(W, c, Public, "joined", Notice("user_joined", W.t), ok)
      [] phase = "roster_out" ->
            BroadcastToRoom(W, c, Public, "left", Notice("user_left", W.t), ok)
      [] phase = "left" ->
            [W EXCEPT !.conn[c].pc = "done", !.conn[c].phase = "none",
                      !.conn[c].user = NoUser]
      [] OTHER ->
            [W EXCEPT !.conn[c].pc = "recv", !.conn[c].phase = "none"]

\* The finally block of websocket_endpoint up to its first send_json.
Finally(W, c, ok) ==
    LET u == W.conn[c].user
        W1 == Emit(WDisconnect(W, u), Event("cleanup", c, u, Public, "finally", 0))
    IN  BroadcastToRoom(W1, c, Public, "roster_out", Notice("online_users", W.t), ok)

\* An exception raised in task c.  Inside the try block it is caught (both
\* except clauses only print) and the finally block runs; raised by the
\* finally block itself it leaves the handler.
Raise(W, c, exc, ok) ==
    LET t == W.conn[c]
        W1 == [Emit(W, Event("raise", c, t.user, t.room, exc, t.message)) EXCEPT
                  !.conn[c].disconnected = {},
                  !.conn[c].n0 = 0, !.conn[c].pos = 0, !.conn[c].message = 0,
                  !.conn[c].room = Public]
    IN  IF t.phase \in {"roster_out", "left"}
        THEN [W1 EXCEPT !.conn[c].pc = "crashed", !.conn[c].phase = "none",
                        !.conn[c].user = NoUser]
        ELSE Finally(W1, c, ok)

\* ------------------------------------------- websocket_endpoint, greeting
\* websocket_endpoint from its start to the end of the greeting: connect,
\* then the welcome frame, the rooms list and the chat histories, each a
\* send_to_user to the user's own handle.  These sends change no shared state
\* unless one raises, and then send_to_user's except clause disconnects the
\* user and the rest of the greeting finds no handle and sends nothing: the
\* task runs on into broadcast_user_list without a suspension.  They are
\* modelled as one write that succeeds (ok) or raises; the suspensions
\* between them, and the RuntimeError the loop over manager.user_rooms can
\* raise when that set changes size during one of its sends, are not.
OpenConnection(W, c, user_id, ok) ==
    LET W1 == SendToUser(
                [W EXCEPT !.m = ManagerConnect(@, user_id, c, W.t),
                          !.conn[c].user = user_id, !.conn[c].pc = "greeted"],
                c, user_id, "connection", "direct", ok)
    IN  IF ok THEN W1
        ELSE BroadcastToRoom(W1, c, Public, "roster_in", Notice("online_users", W.t), ok)

\* websocket_endpoint from broadcast_user_list() of the greeting.
Greeted(W, c, ok) ==
    BroadcastToRoom(W, c, Public, "roster_in", Notice("online_users", W.t), ok)

\* ------------------------------------------ websocket_endpoint, the loop
\* An inbound frame: whether json.loads parses it and to what, the room it
\* names (absent: "public"), its message_type (absent: "text") and the state
\* of the fields that message_type requires.  Of the frames the handler
\* treats alike one is kept: it reads nothing but room_id of a frame whose
\* room the sender may not access, and no field of an unknown message_type.
MessageTypes == {"text", "location", "file", "other"}
Payloads == {"ok", "missing", "invalid"}
Frames(M, user_id) ==
    {f \in [json : {"object"}, room_id : (DOMAIN M.room_members) \cup {NoSuchRoom},
            message_type : MessageTypes, payload : Payloads] :
        /\ f.message_type = "other" => f.payload = "ok"
        /\ f.message_type = "file" => f.payload # "invalid"
        /\ ~VerifyRoomAccess(M, user_id, f.room_id)
              => (f.message_type = "text" /\ f.payload = "ok")}
    \cup [json : {"invalid", "nonobject"}, room_id : {Public},
          message_type : {"text"}, payload : {"ok"}]

\* The number of entries of all logs: the next chat message is the next one.
RECURSIVE LogTotal(_, _)
LogTotal(M, rooms) ==
    IF rooms = {} THEN 0
    ELSE LET r == CHOOSE x \in rooms : TRUE
         IN  Len(M.message_history[r]) + LogTotal(M, rooms \ {r})
Logged(M) == LogTotal(M, DOMAIN M.message_history)

\* The branches with the text branch broadcasting whatever content it finds.
FrameOutcome_anytext(frame) ==
    CASE frame.message_type = "text" ->
            (IF frame.payload = "invalid" THEN "raise" ELSE "broadcast")
      [] frame.message_type = "location" ->
            (CASE frame.payload = "ok" -> "broadcast"
               [] frame.payload = "missing" -> "drop"
               [] OTHER -> "raise")
      [] frame.message_type = "file" ->
            (IF frame.payload = "missing" THEN "drop" ELSE "broadcast")
      [] OTHER -> "drop"

\* What the frame's branch of the loop body does with its fields:
\*   "broadcast"  the required fields are there
\*   "drop"       a required field is missing or empty, or no branch matches
\*   "raise"      content.strip() on a non-string, float() on a non-number
FrameOutcome(frame) ==
    CASE frame.message_type = "text" ->
            (CASE frame.payload = "ok" -> "broadcast"
               [] frame.payload = "missing" -> "drop"
               [] OTHER -> "raise")
      [] frame.message_type = "location" ->
            (CASE frame.payload = "ok" -> "broadcast"
               [] frame.payload = "missing" -> "drop"
               [] OTHER -> "raise")
      [] frame.message_type = "file" ->
            (IF frame.payload = "missing" THEN "drop" ELSE "broadcast")
      [] OTHER -> "drop"

FrameException(frame) ==
    IF frame.message_type = "text" THEN "AttributeError" ELSE "ValueError"

\* One pass of the `while True` body on a received frame.
HandleFrame(W, c, frame, ok) ==
    LET u == W.conn[c].user IN
    IF frame.json = "invalid" THEN W
    ELSE IF frame.json = "nonobject" THEN Raise(W, c, "AttributeError", ok)
    ELSE IF ~VerifyRoomAccess(W.m, u, frame.room_id)
         THEN SendToUser(W, c, u, "error", frame.room_id, ok)
    ELSE LET outcome == FrameOutcome(frame) IN
         CASE outcome = "broadcast" ->
                BroadcastToRoom(W, c, frame.room_id, "msg",
                                ChatMessage(Logged(W.m) + 1, u, W.t), ok)
           [] outcome = "raise" -> Raise(W, c, FrameException(frame), ok)
           [] OTHER -> W

\* ------------------------------------------------------------------ state
\* manager  the module-level ConnectionManager
\* conn     the websocket_endpoint tasks
\* inbox    per connection, the chat messages written to its socket, in order
\* last     the events of the last step
\* now      the reading of datetime.now()
VARIABLES manager, conn, inbox, last, now
vars == <<manager, conn, inbox, last, now>>

World == [m |-> manager, conn |-> conn, inbox |-> inbox, ev |-> {}, t |-> now]
Becomes(W) ==
    /\ manager' = W.m
    /\ conn' = W.conn
    /\ inbox' = W.inbox
    /\ last' = W.ev
    /\ UNCHANGED now

Init ==
    /\ manager = ManagerInit
    /\ conn = [c \in Conns |-> TaskInit]
    /\ inbox = [c \in Conns |-> <<>>]
    /\ last = {}
    /\ now = 0

\* The clock of datetime.now() advances.
Tick(maxclock) ==
    /\ now < maxclock
    /\ now' = now + 1
    /\ last' = {}
    /\ UNCHANGED <<manager, conn, inbox>>

\* A client opens /ws/{user_id}: connections are numbered as they arrive.
\* `oks` are the outcomes the run's send_json may have: TRUE it is written,
\* FALSE it raises.
Open(c, user_id, oks) ==
    /\ conn[c].pc = "idle"
    /\ \A d \in Conns : d < c => conn[d].pc # "idle"
    /\ \E ok \in oks : Becomes(OpenConnection(World, c, user_id, ok))

\* The last send of the greeting returns.
ResumeGreeted(c, oks) ==
    /\ conn[c].pc = "greeted"
    /\ \E ok \in oks : Becomes(Greeted(World, c, ok))

\* A send_json of broadcast_to_room returns (or raises into its except).
ResumeBroadcast(c, oks) ==
    /\ conn[c].pc = "broadcast"
    /\ \E ok \in oks : Becomes(BroadcastLoop(World, c, ok))

\* The frame is dropped without a send: invalid JSON, or a frame for a room
\* the sender may access whose branch broadcasts nothing.
Dropped(M, user_id, frame) ==
    \/ frame.json = "invalid"
    \/ /\ frame.json = "object"
       /\ VerifyRoomAccess(M, user_id, frame.room_id)
       /\ FrameOutcome(frame) = "drop"

\* receive_text() returns a frame.  At most maxmsgs chat messages are sent.
Receive(c, maxmsgs, oks) ==
    /\ conn[c].pc = "recv"
    /\ \E frame \in Frames(manager, conn[c].user) :
          /\ (frame.json = "object"
              /\ VerifyRoomAccess(manager, conn[c].user, frame.room_id)
              /\ FrameOutcome(frame) = "broadcast") => Logged(manager) < maxmsgs
          /\ \E ok \in (IF Dropped(manager, conn[c].user, frame) THEN {TRUE} ELSE oks) :
                Becomes(HandleFrame(World, c, frame, ok))

\* receive_text() raises WebSocketDisconnect: the client closed or was lost.
Close(c, oks) ==
    /\ conn[c].pc = "recv"
    /\ \E ok \in oks : Becomes(Raise(World, c, "WebSocketDisconnect", ok))

RoomsCreated == Cardinality(DOMAIN manager.room_metadata)

\* POST /rooms/private.  At most maxrooms rooms are created.
CreatePrivateChat(user1, user2, maxrooms) ==
    /\ user1 # user2
    /\ PrivateRoomsOf(manager, user1, user2) # {} \/ RoomsCreated < maxrooms
    /\ LET got == GetOrCreatePrivateRoom(manager, user1, user2, Uuid(RoomsCreated + 1), now)
       IN  /\ manager' = got.m
           /\ last' = {Event("private", 0, user1, got.room, user2, 0)}
    /\ UNCHANGED <<conn, inbox, now>>

\* POST /rooms/group: `members` is a list of at least two user identifiers.
\* create_room uses the list as a set but for the copy it stores: the lists
\* drawn name distinct users in one order.
GroupLists ==
    {l \in UNION {[1..n -> Users] : n \in 2..Cardinality(Users)} :
        \A i, j \in 1..Len(l) : i < j => UserRank(l[i]) < UserRank(l[j])}
CreateGroupChat(members, maxrooms) ==
    /\ Len(members) >= 2
    /\ RoomsCreated < maxrooms
    /\ manager' = ManagerCreateRoom(manager, Uuid(RoomsCreated + 1), "group", members, now)
    /\ last' = {}
    /\ UNCHANGED <<conn, inbox, now>>

\* ConnectionManager.join_room and leave_room: no endpoint of main.py calls
\* them; they are operations of the manager a caller may use.  A call that
\* returns False is recorded in `last`; one that returns True shows in the
\* manager.
Join(user_id, room_id) ==
    /\ manager' = JoinRoom(manager, user_id, room_id).m
    /\ last' = IF JoinRoom(manager, user_id, room_id).ret THEN {}
               ELSE {Event("join", 0, user_id, room_id, "false", 0)}
    /\ UNCHANGED <<conn, inbox, now>>

Leave(user_id, room_id) ==
    /\ manager' = LeaveRoom(manager, user_id, room_id).m
    /\ last' = IF LeaveRoom(manager, user_id, room_id).ret THEN {}
               ELSE {Event("leave", 0, user_id, room_id, "false", 0)}
    /\ UNCHANGED <<conn, inbox, now>>

\* The websocket tasks.
TaskStep(maxmsgs, oks) ==
    \E c \in Conns :
        \/ \E u \in Users : Open(c, u, oks)
        \/ ResumeGreeted(c, oks)
        \/ ResumeBroadcast(c, oks)
        \/ Receive(c, maxmsgs, oks)
        \/ Close(c, oks)

\* The HTTP room endpoints.
HttpStep(maxrooms) ==
    \/ \E u1, u2 \in Users : CreatePrivateChat(u1, u2, maxrooms)
    \/ \E members \in GroupLists : CreateGroupChat(members, maxrooms)

\* Direct callers of the manager's join_room and leave_room.
ApiStep ==
    \E u \in Users, r \in (DOMAIN manager.room_members) \cup {NoSuchRoom} :
        Join(u, r) \/ Leave(u, r)

\* The application as main.py wires it (websocket tasks and HTTP room
\* endpoints), within one reading of the clock.
Next == TaskStep(MaxMsgs, BOOLEAN) \/ HttpStep(MaxRooms)
Spec == Init /\ [][Next]_vars

\* The websocket tasks while the clock advances.
TimeNext == TaskStep(TimeMaxMsgs, BOOLEAN) \/ Tick(TimeMaxClock)
TimeSpec == Init /\ [][TimeNext]_vars

\* The websocket tasks and the room endpoints, no chat message sent.
RoomNext == TaskStep(0, BOOLEAN) \/ HttpStep(RoomMaxRooms)
RoomSpec == Init /\ [][RoomNext]_vars

\* The same with direct callers of join_room and leave_room, one room.
ApiNext == TaskStep(0, BOOLEAN) \/ HttpStep(ApiMaxRooms) \/ ApiStep
ApiSpec == Init /\ [][ApiNext]_vars

\* The websocket tasks when every send is written: no peer is ever lost
\* before its connection closes.
DeliverNext == TaskStep(DeliverMaxMsgs, {TRUE})
DeliverSpec == Init /\ [][DeliverNext]_vars

\* The websocket tasks under the event loop's scheduling: a task suspended in
\* a send_json is resumed once the write has completed or failed.  When a
\* client connects, sends or closes is up to the client.
FairNext == TaskStep(MaxMsgs, BOOLEAN)
Fairness ==
    \A c \in Conns :
        /\ WF_vars(ResumeGreeted(c, BOOLEAN))
        /\ WF_vars(ResumeBroadcast(c, BOOLEAN))
FairSpec == Init /\ [][FairNext]_vars /\ Fairness

\* ----------------------------------------------------------------- claims
Limits == {0 - 1, 0, 1, 2, DefaultLimit}
AnyRoom == (DOMAIN manager.room_members) \cup {NoSuchRoom}
BroadcastPhases == {"roster_in", "joined", "msg", "roster_out", "left"}
IsMember(u, r) == r \in DOMAIN manager.room_members /\ u \in manager.room_members[r]
\* The task is between its registration and its finally block.
IsConnected(t) ==
    \/ t.pc \in {"greeted", "recv"}
    \/ t.pc = "broadcast" /\ t.phase \in {"roster_in", "joined", "msg"}
LoggedTime(msg) == Fromisoformat(msg.timestamp)

\* C1: a user outside a room's live membership set (or naming a room that
\* does not exist) is refused by verify_room_access, gets no broadcast
\* delivery for that room and an empty history, also as an original member.
C1_NonMemberExcluded ==
    \A u \in Users, r \in AnyRoom :
        ~IsMember(u, r) =>
            /\ ~VerifyRoomAccess(manager, u, r)
            /\ \A e \in last : ~(e.op = "deliver" /\ e.what \in BroadcastPhases
                                 /\ e.room = r /\ e.user = u)
            /\ \A limit \in Limits : GetRoomHistory(manager, r, u, limit, now) = <<>>

\* An original member removed by a disconnect, in a room with a logged
\* message that has just been delivered to the member that remains.
C1_Witness ==
    \E r \in DOMAIN manager.room_metadata, u \in Users :
        /\ u \in Range(manager.room_metadata[r].members)
        /\ ~IsMember(u, r)
        /\ manager.message_history[r] # <<>>
        /\ \E e \in last : e.op = "deliver" /\ e.what = "msg" /\ e.room = r

\* C2: a history never holds a message stamped before the user's first-seen
\* time, and with a limit that does not truncate it holds every logged
\* message of the room stamped at or after it.
C2_HistoryAfterFirstSeen ==
    \A u \in Users, r \in DOMAIN manager.room_members :
        LET t0 == GetUserLoginTime(manager, u, now)
            log == manager.message_history[r]
        IN  /\ \A limit \in Limits :
                  LET h == GetRoomHistory(manager, r, u, limit, now)
                  IN  \A i \in 1..Len(h) : LoggedTime(h[i]) >= t0
            /\ IsMember(u, r) =>
                  \A i \in 1..Len(log) :
                      LoggedTime(log[i]) >= t0 =>
                          log[i] \in Range(GetRoomHistory(manager, r, u, DefaultLimit, now))

\* The public log holds a message older than a member's first connection and
\* one sent after it: the member's history is the later one alone.
C2_Witness ==
    \E u \in Users :
        LET log == manager.message_history[Public]
            t0 == GetUserLoginTime(manager, u, now)
        IN  /\ IsMember(u, Public)
            /\ Len(log) = 2
            /\ LoggedTime(log[1]) < t0
            /\ LoggedTime(log[2]) >= t0
            /\ GetRoomHistory(manager, Public, u, DefaultLimit, now) = <<log[2]>>

\* C3: the public room always exists and every user with an entry in the
\* connection registry is in its live membership set.
C3_PublicHoldsConnected ==
    /\ Public \in DOMAIN manager.room_members
    /\ DOMAIN manager.active_connections \subseteq manager.room_members[Public]

\* A registered user has just asked to leave the public room.
C3_Witness ==
    \E e \in last :
        /\ e.op = "leave" /\ e.room = Public
        /\ e.user \in DOMAIN manager.active_connections

\* C4: when a connection's cleanup (the disconnect of its finally block) has
\* run, its user is in no registry entry and in no room's membership set.
C4_CleanupRemovesUser ==
    \A e \in last :
        e.op = "cleanup" =>
            /\ e.user \notin DOMAIN manager.active_connections
            /\ \A r \in DOMAIN manager.room_members : e.user \notin manager.room_members[r]

\* C5: the teardown of one connection leaves the registered handle of
\* another connection that stays connected in place.
C5_TeardownKeepsNewerHandle ==
    [][\A c, d \in Conns :
          (/\ c # d
           /\ IsConnected(conn[c]) /\ ~IsConnected(conn'[c])
           /\ IsConnected(conn[d])
           /\ conn[d].user \in DOMAIN manager.active_connections
           /\ manager.active_connections[conn[d].user] = d)
          => (/\ conn[d].user \in DOMAIN manager'.active_connections
              /\ manager'.active_connections[conn[d].user] = d)]_vars

\* C6: the room get_or_create_private_room returns is private and its live
\* membership set is exactly the two users, at the moment of return.
C6_PrivateRoomHoldsBoth ==
    \A e \in last :
        e.op = "private" =>
            /\ manager.room_metadata[e.room].type = "private"
            /\ manager.room_members[e.room] = {e.user, e.what}

\* C7: every call for a pair returns the one private room stored for that
\* unordered pair: there is never a second one, the room returned is it, and
\* a stored room is never dropped or altered.
StoredPrivateRooms(a, b) ==
    {r \in DOMAIN manager.room_metadata :
        /\ manager.room_metadata[r].type = "private"
        /\ Range(manager.room_metadata[r].members) = {a, b}}
C7_OnePrivateRoomPerPair ==
    /\ [](\A a, b \in Users : Cardinality(StoredPrivateRooms(a, b)) <= 1)
    /\ [](\A e \in last : e.op = "private" => e.room \in StoredPrivateRooms(e.what, e.user))
    /\ [][\A r \in DOMAIN manager.room_metadata :
             /\ r \in DOMAIN manager'.room_metadata
             /\ manager'.room_metadata[r] = manager.room_metadata[r]]_vars

\* The call for (b, a) returns the room created for (a, b), after a member
\* was removed from it by a disconnect.
C7_Witness ==
    \E e \in last :
        /\ e.op = "private"
        /\ manager.room_metadata[e.room].members = <<e.what, e.user>>
        /\ manager.room_members[e.room] # {e.what, e.user}

\* C8: a membership change during a broadcast raises no error into the
\* sender's task.
C8_NoErrorFromBroadcast ==
    \A e \in last : ~(e.op = "raise" /\ e.what = "RuntimeError")

\* C9: every connection receives the chat messages of one room in the order
\* of the room's log.
RoomOfMessage(id) ==
    CHOOSE r \in DOMAIN manager.message_history :
        \E i \in 1..Len(manager.message_history[r]) : manager.message_history[r][i].id = id
C9_DeliveryInLogOrder ==
    \A c \in Conns :
        \A i, j \in 1..Len(inbox[c]) :
            (i < j /\ RoomOfMessage(inbox[c][i]) = RoomOfMessage(inbox[c][j]))
                => inbox[c][i] < inbox[c][j]

\* C10: a send that fails inside a broadcast leaves the sender's task in the
\* loop with the iterated membership set as it was, and once a send has
\* failed the loop's next step still writes to the next registered member,
\* or returns without raising when there is none.
C10_FailureIsolated ==
    [][\A c \in Conns :
          conn'[c] # conn[c] =>
            /\ \A e \in last' :
                  (e.op = "sendfail" /\ e.what \in BroadcastPhases)
                  => /\ conn'[c].pc = "broadcast"
                     /\ conn'[c].phase = e.what /\ conn'[c].room = e.room
                     /\ e.user \in conn'[c].disconnected
                     /\ e.user \in manager'.room_members[e.room]
                     /\ Cardinality(manager'.room_members[e.room]) = conn'[c].n0
            /\ (/\ conn[c].pc = "broadcast"
                /\ conn[c].disconnected # {}
                /\ Cardinality(manager.room_members[conn[c].room]) = conn[c].n0)
               => LET rcpt == {u \in manager.room_members[conn[c].room] :
                                 /\ UserRank(u) > conn[c].pos
                                 /\ u \in DOMAIN manager.active_connections}
                  IN  IF rcpt # {}
                      THEN /\ conn'[c].pc = "broadcast" /\ conn'[c].phase = conn[c].phase
                           /\ \E e \in last' :
                                 /\ e.op \in {"deliver", "sendfail"}
                                 /\ e.room = conn[c].room
                                 /\ e.user \in rcpt
                                 /\ \A y \in rcpt : UserRank(e.user) <= UserRank(y)
                      ELSE /\ \A x \in last' : x.op # "raise"
                           /\ conn[c].disconnected \cap DOMAIN manager'.active_connections = {}]_vars

\* A send of a broadcast failed and the next member has just been written to.
C10_Witness ==
    \E c \in Conns, e \in last :
        /\ conn[c].pc = "broadcast"
        /\ conn[c].disconnected # {}
        /\ e.op = "deliver" /\ e.room = conn[c].room /\ e.what = conn[c].phase
        /\ conn[c].pos = UserRank(e.user)
        /\ e.user \notin conn[c].disconnected

\* C11: the step in which a broadcast returns leaves every user whose send
\* failed during it out of the registry and out of every room's membership
\* set, and leaves every other user's registration and memberships as they
\* were.
C11_FailedRecipientsRemoved ==
    [][\A c \in Conns :
          (/\ conn[c].pc = "broadcast"
           /\ conn'[c] # conn[c]
           /\ Cardinality(manager.room_members[conn[c].room]) = conn[c].n0
           /\ Recipients(manager, conn[c].room, conn[c].pos) = {})
          => /\ \A u \in conn[c].disconnected :
                   /\ u \notin DOMAIN manager'.active_connections
                   /\ \A r \in DOMAIN manager'.room_members : u \notin manager'.room_members[r]
             /\ \A v \in Users \ conn[c].disconnected :
                   /\ v \in DOMAIN manager'.active_connections
                         <=> v \in DOMAIN manager.active_connections
                   /\ v \in DOMAIN manager.active_connections
                         => manager'.active_connections[v] = manager.active_connections[v]
                   /\ \A r \in DOMAIN manager.room_members :
                         v \in manager'.room_members[r] <=> v \in manager.room_members[r]]_vars

\* C12: across every step each room keeps its log and the old log is a
\* prefix of the new one, and the entries of a log stand in the order their
\* broadcasts were invoked (the message number is taken at invocation).
IsPrefix(s, t) == Len(s) <= Len(t) /\ SubSeq(t, 1, Len(s)) = s
C12_LogAppendOnly ==
    /\ [][\A r \in DOMAIN manager.message_history :
             /\ r \in DOMAIN manager'.message_history
             /\ IsPrefix(manager.message_history[r], manager'.message_history[r])]_vars
    /\ [](\A r \in DOMAIN manager.message_history :
             \A i, j \in 1..Len(manager.message_history[r]) :
                 i < j => manager.message_history[r][i].id < manager.message_history[r][j].id)

\* The second message of the public log was logged by another sender while
\* the broadcast of the first was still suspended in a send.
C12_Witness ==
    LET log == manager.message_history[Public]
    IN  /\ Len(log) = 2
        /\ log[1].sender_id # log[2].sender_id
        /\ \E c \in Conns :
              /\ conn[c].pc = "broadcast" /\ conn[c].phase = "msg"
              /\ conn[c].message = log[1].id

\* C13: every entry of every log is a client message (type "message")
\* carrying the identifier of the room whose log holds it: no roster update
\* and no user_joined or user_left notice is ever logged.
C13_OnlyMessagesLogged ==
    \A r \in DOMAIN manager.message_history :
        \A i \in 1..Len(manager.message_history[r]) :
            /\ manager.message_history[r][i].type = "message"
            /\ manager.message_history[r][i].room_id = r

\* A created room's log holds a message and a notice has just been written
\* to a member of the public room.
C13_Witness ==
    /\ \E r \in DOMAIN manager.room_metadata : manager.message_history[r] # <<>>
    /\ \E e \in last :
          /\ e.op = "deliver"
          /\ e.what \in {"roster_in", "joined", "roster_out", "left"}

\* C14: once a user has a first-seen time, every step keeps it and leaves
\* its value as it is.
C14_FirstSeenFixed ==
    [][\A u \in DOMAIN manager.user_login_times :
          /\ u \in DOMAIN manager'.user_login_times
          /\ manager'.user_login_times[u] = manager.user_login_times[u]]_vars

\* A user first seen at an earlier reading of the clock has just connected
\* again.
C14_Witness ==
    \E e \in last :
        /\ e.what = "connection"
        /\ e.user \in DOMAIN manager.user_login_times
        /\ manager.user_login_times[e.user] < now

\* A chat broadcast of task c run to its return with no other task in
\* between, every send having the outcome ok.
RECURSIVE CompleteBroadcast(_, _, _)
CompleteBroadcast(W, c, ok) ==
    IF W.conn[c].pc = "broadcast" /\ W.conn[c].phase = "msg"
    THEN CompleteBroadcast(BroadcastLoop(W, c, ok), c, ok)
    ELSE W
ChatFrames(c) ==
    {f \in Frames(manager, conn[c].user) :
        /\ f.json = "object"
        /\ VerifyRoomAccess(manager, conn[c].user, f.room_id)
        /\ FrameOutcome(f) = "broadcast"}

\* C15: from every reachable state, a chat broadcast to a room the sender
\* may use, run to its return, appends one entry to that room's log and to
\* no other, writes once to the registered handle of every member of the
\* room that is in the registry and to nobody else, and raises nothing.
C15_BroadcastReachesRegisteredMembers ==
    \A c \in Conns :
        conn[c].pc = "recv" =>
            \A f \in ChatFrames(c), ok \in BOOLEAN :
                LET W == CompleteBroadcast(HandleFrame(World, c, f, ok), c, ok)
                    r == f.room_id
                    old == manager.message_history[r]
                    new == W.m.message_history[r]
                    targets == manager.room_members[r] \cap DOMAIN manager.active_connections
                    sends == {e \in W.ev : e.op \in {"deliver", "sendfail"}}
                IN  /\ Len(new) = Len(old) + 1
                    /\ SubSeq(new, 1, Len(old)) = old
                    /\ new[Len(new)].type = "message"
                    /\ new[Len(new)].sender_id = conn[c].user
                    /\ \A q \in DOMAIN manager.message_history \ {r} :
                          W.m.message_history[q] = manager.message_history[q]
                    /\ {e.user : e \in sends} = targets
                    /\ \A e \in sends :
                          /\ e.what = "msg" /\ e.room = r
                          /\ e.conn = manager.active_connections[e.user]
                          /\ e.msg = new[Len(new)].id
                    /\ \A h \in Conns :
                          W.inbox[h] =
                              IF ok /\ \E u \in targets : manager.active_connections[u] = h
                              THEN Append(inbox[h], new[Len(new)].id) ELSE inbox[h]
                    /\ \A e \in W.ev : e.op # "raise"
                    /\ W.conn[c].pc = "recv"

\* A chat broadcast to a created room is under way while one member of the
\* room is in the registry and another is not.
C15_Witness ==
    \E c \in Conns, e \in last :
        /\ conn[c].pc = "broadcast" /\ conn[c].phase = "msg"
        /\ conn[c].room \in DOMAIN manager.room_metadata
        /\ e.op = "deliver" /\ e.what = "msg" /\ e.room = conn[c].room
        /\ \E y \in manager.room_members[conn[c].room] :
              y \notin DOMAIN manager.active_connections
        /\ Len(manager.message_history[conn[c].room]) = 1

\* C16: from every reachable state, broadcast_to_room called for a room
\* identifier that is in no room dict, persisting or not, returns without
\* raising, writes to nobody and leaves the registry, the membership sets
\* and the logs as they were.
C16_MissingRoomNoOp ==
    \A c \in Conns :
        conn[c].pc = "recv" =>
            \A phase \in {"msg", "joined"} :
                LET message == IF phase = "msg"
                               THEN ChatMessage(Logged(manager) + 1, conn[c].user, now)
                               ELSE Notice("user_joined", now)
                    W == BroadcastToRoom(World, c, NoSuchRoom, phase, message, TRUE)
                IN  /\ W.ev = {}
                    /\ W.inbox = inbox
                    /\ W.conn[c].pc = "recv"
                    /\ W.m.active_connections = manager.active_connections
                    /\ W.m.room_members = manager.room_members
                    /\ W.m.user_rooms = manager.user_rooms
                    /\ W.m.message_history = manager.message_history

\* The frames of task c that name a room its user may not use.
DeniedFrames(c) ==
    {f \in Frames(manager, conn[c].user) :
        f.json = "object" /\ ~VerifyRoomAccess(manager, conn[c].user, f.room_id)}

\* C17: from every reachable state, a frame naming a room the sender is not
\* a live member of (or no room at all) gets an error frame written to the
\* sender and to nobody else, changes no log, no registration and no
\* membership, and leaves the sender's task in its receive loop.
C17_DeniedFrameRejected ==
    \A c \in Conns :
        conn[c].pc = "recv" =>
            \A f \in DeniedFrames(c) :
                LET W == HandleFrame(World, c, f, TRUE)
                IN  /\ \E e \in W.ev :
                          e.op = "deliver" /\ e.what = "error" /\ e.user = conn[c].user
                    /\ \A e \in W.ev : e.user = conn[c].user /\ e.what = "error"
                    /\ W.m = manager
                    /\ W.inbox = inbox
                    /\ W.conn[c].pc = "recv"

\* Unparsable text, and for every room identifier a text frame with empty
\* content, a location frame without coordinates, a file frame without URL.
MalformedFrames ==
    [json : {"invalid"}, room_id : {Public}, message_type : {"text"}, payload : {"ok"}]
    \cup [json : {"object"}, room_id : AnyRoom,
          message_type : {"text", "location", "file"}, payload : {"missing"}]
\* The frame leaves everything as it was and the task in its receive loop.
SilentlyDropped(c, f) ==
    LET W == HandleFrame(World, c, f, TRUE)
    IN  /\ W.ev = {}
        /\ W.m = manager
        /\ W.inbox = inbox
        /\ W.conn[c] = conn[c]

LastEntries(seq, k) ==
    IF k >= Len(seq) THEN seq ELSE SubSeq(seq, Len(seq) - k + 1, Len(seq))

\* C19: for every live member of a room and every limit >= 0,
\* get_room_history returns the last `limit` entries of the time-filtered
\* log in arrival order: at most `limit` entries, none for limit 0.
C19_HistoryLastLimit ==
    \A u \in Users, r \in DOMAIN manager.message_history :
        IsMember(u, r) =>
            \A limit \in {l \in Limits : l >= 0} :
                LET result == GetRoomHistory(manager, r, u, limit, now)
                    filtered == FilterMessages(manager.message_history[r],
                                               GetUserLoginTime(manager, u, now))
                IN  /\ Len(result) <= limit
                    /\ result = LastEntries(filtered, limit)

\* C20: leave_room refuses the public room and changes nothing; for any
\* other room it returns True, the user is out of the room's membership set
\* afterwards and nobody else's membership moved, and a repeated call, or a
\* call for a user who is not a member, returns True and changes nothing.
C20_LeaveIdempotent ==
    \A u \in Users, r \in AnyRoom :
        LET first == LeaveRoom(manager, u, r)
            again == LeaveRoom(first.m, u, r)
        IN  IF r = Public
            THEN ~first.ret /\ first.m = manager
            ELSE /\ first.ret
                 /\ DOMAIN first.m.room_members = DOMAIN manager.room_members
                 /\ \A q \in DOMAIN manager.room_members :
                        first.m.room_members[q] =
                            IF q = r THEN manager.room_members[q] \ {u}
                            ELSE manager.room_members[q]
                 /\ again.ret
                 /\ again.m = first.m
                 /\ ~IsMember(u, r) => first.m = manager

\* A user who never connected is out of the live set of a private or group
\* room created with them, which only leave_room does.
C20_Witness ==
    \E u \in Users, r \in DOMAIN manager.room_metadata :
        /\ r # Public
        /\ u \in Range(manager.room_metadata[r].members)
        /\ u \notin manager.room_members[r]
        /\ u \in DOMAIN manager.user_rooms
        /\ r \notin manager.user_rooms[u]
        /\ u \notin DOMAIN manager.user_login_times

\* The rooms user_rooms records for a user; none without an entry.
RoomsOfUser(u) ==
    IF u \in DOMAIN manager.user_rooms THEN manager.user_rooms[u] ELSE {}

\* C22: the two membership indexes agree in every reachable state: for every
\* user u and existing room r, r is in user_rooms[u] exactly when u is in
\* room_members[r].
C22_IndexesConsistent ==
    \A u \in Users, r \in DOMAIN manager.room_members :
        (r \in RoomsOfUser(u)) <=> (u \in manager.room_members[r])

\* A created room has lost one of the users it was created with and holds a
\* registered user who is also in the public room, after a step that was not
\* a refused call.
C22_Witness ==
    \E r \in DOMAIN manager.room_metadata, u, v \in Users :
        /\ v \in Range(manager.room_metadata[r].members)
        /\ v \notin manager.room_members[r]
        /\ u \in manager.room_members[r]
        /\ u \in DOMAIN manager.active_connections
        /\ RoomsOfUser(u) = {Public, r}

\* The task is in its finally block, suspended in a send of the roster
\* broadcast.
InRosterOut(c) == conn[c].pc = "broadcast" /\ conn[c].phase = "roster_out"
\* The task has called the user_left broadcast: it is suspended in one of
\* its sends, or the broadcast returned and the handler with it.
LeftBroadcast(c) ==
    \/ conn[c].pc = "broadcast" /\ conn[c].phase = "left"
    \/ conn[c].pc = "done"

\* C21: under fair scheduling a connection that left the connected state and
\* is in the roster broadcast of its cleanup goes on to the user_left
\* broadcast to the public room.
C21_CleanupBroadcastsBoth ==
    \A c \in Conns : InRosterOut(c) ~> LeftBroadcast(c)
====
